---- MODULE Spec2Model ----
(***************************************************************************)
(* Model of example-tx-raw (main.go): one sequential run of main, which    *)
(* connects to the database and runs three bulk-copy scenarios             *)
(* (no transaction, transaction + commit, transaction + rollback).         *)
(*                                                                         *)
(* The database, the connection pool and the driver are the environment:   *)
(* every call into them may succeed or fail, the layout of sql.Tx seen by  *)
(* reflection is fixed per build, and the dynamic type of each driver      *)
(* connection is chosen when the connection is acquired.                   *)
(***************************************************************************)
EXTENDS Integers, Sequences, FiniteSets, TLC

VARIABLES
    pc,            \* position of the (single) goroutine in main / a scenario
    exitStatus,    \* "running", "zero" (main returned) or "nonzero" (log.Fatalf)
    log,           \* what was logged, in order: [fatal, msg]
    started,       \* scenario functions entered, in order
    finished,      \* scenario functions that returned, in order
    layout,        \* which private fields reflection finds: "ok", "noDc", "noCi"
    table,         \* persisted (committed) rows of table items
    conn,          \* the dedicated *sql.Conn of scenario 1
    tx,            \* the *sql.Tx handle of each transactional scenario
    peakConns,     \* most connections in use at the same moment so far
    poolOps,       \* operations issued through the pool db, in order, each
                   \* with the connections held outside the pool at that moment
    failures,      \* calls that returned a non-nil error, in order
    genArgs,       \* arguments of the last generateSampleData call
    sampleData,    \* local sampleData of the running scenario
    err,           \* local err of the running scenario
    rowCount,      \* local rowCount of the running scenario
    raw,           \* the Raw call in progress / last finished, and its callback
    copy,          \* the last performCopyFrom call and what it did
    uses           \* every use of a borrowed raw driver connection

ctl    == <<pc, exitStatus, log, started, finished>>
db     == <<table, conn, tx, peakConns, poolOps>>
locals == <<genArgs, sampleData, err, rowCount>>
hist   == <<raw, copy, uses>>
vars   == <<pc, exitStatus, log, started, finished, layout, table, conn, tx,
           peakConns, poolOps, failures, genArgs, sampleData, err, rowCount,
           raw, copy, uses>>

----------------------------------------------------------------------------
(* Bounds and program constants *)

MaxInitRows == 2       \* rows an earlier run may have left in the table
MaxGenRows == 21       \* largest numRows tried on generateSampleData alone

NoTxRows == 10
TxCommitRows == 15
TxRollbackRows == 20

Layouts == {"ok", "noDc", "noCi"}
ConnTypes == {"*stdlib.Conn", "*other.Conn"}
CopyOutcomes == {"ok", "constraint violation", "connection lost"}
TxScenarios == {"commit", "rollback"}
ScenarioOrder == <<"noTx", "commit", "rollback">>

NilErr == "nil"

----------------------------------------------------------------------------
(* Pure helpers *)

Digit(d) == SubSeq("0123456789", d + 1, d + 1)

RECURSIVE Itoa(_)
Itoa(n) == IF n < 10 THEN Digit(n) ELSE Itoa(n \div 10) \o Digit(n % 10)

Max(a, b) == IF a >= b THEN a ELSE b

\* Mutant: the sequence number is the loop index i, not i+1.
generateSampleData_ZeroBased(numRows, prefix) ==
    [i \in 1..numRows |->
        << prefix \o " Name " \o Itoa(i - 1),
           prefix \o " Data " \o Itoa(i - 1) >>]

\* Mutant: the loop stops one row early.
generateSampleData_Short(numRows, prefix) ==
    [i \in 1..(numRows - 1) |->
        << prefix \o " Name " \o Itoa((i - 1) + 1),
           prefix \o " Data " \o Itoa((i - 1) + 1) >>]

generateSampleData(numRows, prefix) ==
    [i \in 1..numRows |->
        << prefix \o " Name " \o Itoa((i - 1) + 1),
           prefix \o " Data " \o Itoa((i - 1) + 1) >>]

\* log.Printf / log.Println of an ordinary line, of a line reporting a failed
\* operation, of a row-count mismatch line; log.Fatalf.
Printf(l, msg) == Append(l, [kind |-> "info", msg |-> msg])
PrintErr(l, msg) == Append(l, [kind |-> "operr", msg |-> msg])
PrintMismatch(l, msg) == Append(l, [kind |-> "mismatch", msg |-> msg])
Fatalf(l, msg) == Append(l, [kind |-> "fatal", msg |-> msg])

Failed(step, s) == Append(failures, [step |-> step, scenario |-> s])

\* Connections held outside the pool: the dedicated conn and open transactions.
Held == (IF conn.state = "open" THEN 1 ELSE 0)
        + Cardinality({s \in TxScenarios : tx[s].state = "open"})

NoCopy == [called |-> FALSE, scenario |-> "none", type |-> "none",
           outcome |-> "none", err |-> NilErr, attempted |-> FALSE,
           data |-> <<>>, persistedBefore |-> <<>>, persistedAfter |-> <<>>,
           pendingBefore |-> <<>>, pendingAfter |-> <<>>]

NoGenArgs == [called |-> FALSE, numRows |-> 0, prefix |-> ""]

NoRef == [owner |-> "none", type |-> "none"]

NoTx == [state |-> "none", dc |-> [owner |-> "none", type |-> "none", ci |-> NoRef],
         pending |-> <<>>, commitCalls |-> 0, rollbackCalls |-> 0,
         lateUses |-> 0]

\* No Raw call yet. before is the handle and the table as they were when Raw
\* was called.
NoRaw == [active |-> FALSE, returned |-> FALSE, calls |-> 0,
          arg |-> [owner |-> "none", type |-> "none"],
          scenario |-> "none", cbResult |-> NilErr, result |-> NilErr,
          lookup |-> NilErr, before |-> [tx |-> NoTx, table |-> <<>>]]

Rows(s) == CASE s = "noTx" -> NoTxRows
             [] s = "commit" -> TxCommitRows
             [] s = "rollback" -> TxRollbackRows

Prefix(s) == CASE s = "noTx" -> "NoTx"
               [] s = "commit" -> "TxCommit"
               [] s = "rollback" -> "TxRollback"

\* Where main goes on when scenario s returns (lines 91-95).
AfterScenario(s) == CASE s = "noTx" -> "commit_clear"
                      [] s = "commit" -> "rollback_clear"
                      [] s = "rollback" -> "main_end"

At(s, label) == s \o "_" \o label

----------------------------------------------------------------------------
(* The helper functions of main.go *)

\* Tx.Raw, the reflective lookup: the error the lookup ends with, or nil.
TxRawLookup(lay) ==
    IF lay = "noDc" THEN "cannot access dc field from transaction"
    ELSE IF lay = "noCi" THEN "cannot access ci field from driverConn"
    ELSE NilErr

\* Mutant: the type assertion's result is ignored and the transfer attempted.
performCopyFrom_NoTypeCheck(driverConn, data, outcome) ==
    IF outcome # "ok"
    THEN [err |-> "pgxConn.CopyFrom failed: " \o outcome,
          attempted |-> TRUE, accepted |-> <<>>]
    ELSE [err |-> NilErr, attempted |-> TRUE, accepted |-> data]

\* performCopyFrom on driverConn with the transfer ending in outcome.
performCopyFrom(driverConn, data, outcome) ==
    IF driverConn.type # "*stdlib.Conn"
    THEN [err |-> "driverConn is not *stdlib.Conn, got " \o driverConn.type,
          attempted |-> FALSE, accepted |-> <<>>]
    ELSE IF outcome # "ok"
    THEN [err |-> "pgxConn.CopyFrom failed: " \o outcome,
          attempted |-> TRUE, accepted |-> <<>>]
    ELSE [err |-> NilErr, attempted |-> TRUE, accepted |-> data]

\* Mutant: the statement succeeds but deletes nothing.
clearTable_NoDelete(ok) ==
    IF ok THEN [err |-> NilErr, rows |-> table]
    ELSE [err |-> "DELETE FROM items failed", rows |-> table]

\* clearTable: DELETE FROM items through the pool.
clearTable(ok) ==
    IF ok THEN [err |-> NilErr, rows |-> <<>>]
    ELSE [err |-> "DELETE FROM items failed", rows |-> table]

\* countRows: the SELECT COUNT query on items, through the pool.
countRows(ok) ==
    IF ok THEN [err |-> NilErr, count |-> Len(table)]
    ELSE [err |-> "QueryRowContext for COUNT failed", count |-> 0]

\* A database operation issued through the pool db takes one more connection.
PoolOp(name) ==
    /\ peakConns' = Max(peakConns, Held + 1)
    /\ poolOps' = Append(poolOps, [op |-> name, held |-> Held,
                                   conn |-> conn.state,
                                   openTx |-> {s \in TxScenarios : tx[s].state = "open"}])

Exit(l, msg) ==
    /\ log' = Fatalf(l, msg)
    /\ pc' = "exit"
    /\ exitStatus' = "nonzero"

----------------------------------------------------------------------------
Init ==
    /\ pc = "connect"
    /\ exitStatus = "running"
    /\ log = <<>>
    /\ started = <<>>
    /\ finished = <<>>
    /\ layout \in Layouts
    /\ \E n \in 0..MaxInitRows : table = generateSampleData(n, "Prev")
    /\ conn = [state |-> "none", ci |-> [owner |-> "none", type |-> "none"]]
    /\ tx = [s \in TxScenarios |-> NoTx]
    /\ peakConns = 0
    /\ poolOps = <<>>
    /\ failures = <<>>
    /\ genArgs = NoGenArgs
    /\ sampleData = <<>>
    /\ err = NilErr
    /\ rowCount = 0
    /\ raw = NoRaw
    /\ copy = NoCopy
    /\ uses = <<>>

\* main, lines 80-87: dbConnect (sql.Open, then PingContext through the pool).
DbConnect ==
    /\ pc = "connect"
    /\ \E r \in {"ok", "sql.Open failed", "db.PingContext failed"} :
        IF r = "sql.Open failed"
        THEN /\ Exit(log, "Failed to connect to database: " \o r)
             /\ failures' = Failed("sql.Open", "main")
             /\ UNCHANGED <<peakConns, poolOps>>
        ELSE /\ PoolOp("PingContext")
             /\ IF r = "ok"
                THEN /\ log' = Printf(log, "Successfully connected to PostgreSQL")
                     /\ pc' = "noTx_clear"
                     /\ UNCHANGED <<exitStatus, failures>>
                ELSE /\ Exit(log, "Failed to connect to database: " \o r)
                     /\ failures' = Failed("db.PingContext", "main")
    /\ UNCHANGED <<started, finished, layout, table, conn, tx, locals, hist>>

----------------------------------------------------------------------------
(* Steps common to the three scenario functions *)

\* Entry of a scenario: the two header lines, then clearTable (fatal on error).
Clear(s) ==
    /\ pc = At(s, "clear")
    /\ started' = Append(started, s)
    /\ PoolOp("clearTable")
    /\ \E ok \in BOOLEAN :
        LET r == clearTable(ok)
            l == Printf(log, "--- Scenario: " \o s \o " ---")
        IN  IF r.err # NilErr
            THEN /\ Exit(l, "Failed to clear table: " \o r.err)
                 /\ failures' = Failed("clearTable", s)
                 /\ UNCHANGED table
            ELSE /\ table' = r.rows
                 /\ log' = Printf(l, "Table items cleared")
                 /\ pc' = At(s, "gen")
                 /\ UNCHANGED <<exitStatus, failures>>
    /\ UNCHANGED <<finished, layout, conn, tx, locals, hist>>

\* sampleData := generateSampleData(N, label), and the "Generated" line.
Generate(s) ==
    /\ pc = At(s, "gen")
    /\ genArgs' = [called |-> TRUE, numRows |-> Rows(s), prefix |-> Prefix(s)]
    /\ sampleData' = generateSampleData(Rows(s), Prefix(s))
    /\ log' = Printf(log, "Generated " \o Itoa(Len(sampleData')) \o " rows")
    /\ pc' = IF s = "noTx" THEN "noTx_conn" ELSE At(s, "begin")
    /\ UNCHANGED <<exitStatus, started, finished, layout, db, failures, err,
                   rowCount, hist>>

\* The transaction a borrowed connection writes into, if it is still open.
OpenOwner(ref) == ref.owner \in TxScenarios /\ tx[ref.owner].state = "open"

\* The callback, from its call to its return:
\* return performCopyFrom(ctx, driverConn, sampleData, scenario).
Callback(s) ==
    /\ pc = At(s, "cb")
    /\ \E o \in CopyOutcomes :
        LET r == performCopyFrom(raw.arg, sampleData, o)
            inTx == OpenOwner(raw.arg)
            late == raw.arg.owner \in TxScenarios /\ ~inTx
            table2 == IF inTx THEN table ELSE table \o r.accepted
            tx2 == IF inTx
                   THEN [tx EXCEPT ![raw.arg.owner].pending = @ \o r.accepted]
                   ELSE IF late
                   THEN [tx EXCEPT ![raw.arg.owner].lateUses = @ + 1]
                   ELSE tx
        IN  /\ table' = table2
            /\ tx' = tx2
            /\ copy' = [called |-> TRUE, scenario |-> s, type |-> raw.arg.type,
                        outcome |-> IF r.attempted THEN o ELSE "none",
                        err |-> r.err, attempted |-> r.attempted,
                        data |-> sampleData,
                        persistedBefore |-> table, persistedAfter |-> table2,
                        pendingBefore |-> IF raw.arg.owner \in TxScenarios
                                          THEN tx[raw.arg.owner].pending ELSE <<>>,
                        pendingAfter |-> IF raw.arg.owner \in TxScenarios
                                         THEN tx2[raw.arg.owner].pending ELSE <<>>]
            /\ raw' = [raw EXCEPT !.cbResult = r.err, !.active = FALSE]
            /\ failures' = IF r.err # NilErr THEN Failed("performCopyFrom", s)
                           ELSE failures
            /\ log' = IF r.err = NilErr
                      THEN Printf(log, "Successfully inserted "
                                       \o Itoa(Len(r.accepted)) \o " rows using CopyFrom")
                      ELSE log
    /\ uses' = Append(uses, [scenario |-> s, owner |-> raw.arg.owner,
                             inCallback |-> raw.active,
                             ownerState |-> IF raw.arg.owner \in TxScenarios
                                            THEN tx[raw.arg.owner].state
                                            ELSE conn.state])
    /\ pc' = At(s, "rawret")
    /\ UNCHANGED <<exitStatus, started, finished, layout, conn, peakConns,
                   poolOps, locals>>

\* Mutant: Raw drops the callback's error.
RawResult_Swallow(lookup, cbResult) == IF lookup # NilErr THEN lookup ELSE NilErr

\* What Raw returns: the lookup error, else whatever the callback returned.
RawResult(lookup, cbResult) == IF lookup # NilErr THEN lookup ELSE cbResult

\* Raw returns and the scenario assigns its result to err.
RawReturn(s) ==
    /\ pc = At(s, "rawret")
    /\ raw' = [raw EXCEPT !.returned = TRUE,
                          !.result = RawResult(raw.lookup, raw.cbResult)]
    /\ err' = raw'.result
    /\ pc' = At(s, "check")
    /\ UNCHANGED <<exitStatus, log, started, finished, layout, db, failures,
                   genArgs, sampleData, rowCount, copy, uses>>

\* rowCount, err := countRows(ctx, db), fatal on error.
Count(s) ==
    /\ pc = At(s, "count")
    /\ PoolOp("countRows:" \o s)
    /\ \E ok \in BOOLEAN :
        LET r == countRows(ok)
        IN  IF r.err # NilErr
            THEN /\ Exit(log, "Failed to count rows: " \o r.err)
                 /\ failures' = Failed("countRows", s)
                 /\ UNCHANGED <<rowCount, err>>
            ELSE /\ rowCount' = r.count
                 /\ err' = r.err
                 /\ pc' = At(s, "ret")
                 /\ UNCHANGED <<exitStatus, log, failures>>
    /\ UNCHANGED <<started, finished, layout, table, conn, tx, genArgs,
                   sampleData, hist>>

\* The count a scenario compares rowCount with.
Expected(s) == IF s = "rollback" THEN 0 ELSE Len(sampleData)

\* Mutant: scenario 1 never closes its dedicated connection.
Return_NoClose(s) ==
    /\ pc = At(s, "ret")
    /\ LET l == Printf(log, "Result: " \o Itoa(rowCount) \o " rows (Expected: "
                            \o Itoa(Expected(s)) \o ")")
       IN log' = IF rowCount # Expected(s)
                 THEN PrintMismatch(l, "ERROR: Row count mismatch (" \o s \o ")")
                 ELSE l
    /\ finished' = Append(finished, s)
    /\ pc' = AfterScenario(s)
    /\ UNCHANGED <<exitStatus, started, layout, db, failures, locals, hist>>

\* Mutant: a row-count mismatch ends the process with log.Fatalf.
Return_FatalOnMismatch(s) ==
    /\ pc = At(s, "ret")
    /\ LET l == Printf(log, "Result: " \o Itoa(rowCount) \o " rows (Expected: "
                            \o Itoa(Expected(s)) \o ")")
       IN IF rowCount # Expected(s)
          THEN /\ Exit(l, "ERROR: Row count mismatch (" \o s \o ")")
               /\ UNCHANGED <<conn, finished>>
          ELSE /\ log' = l
               /\ conn' = IF s = "noTx" THEN [conn EXCEPT !.state = "closed"] ELSE conn
               /\ finished' = Append(finished, s)
               /\ pc' = AfterScenario(s)
               /\ UNCHANGED exitStatus
    /\ UNCHANGED <<started, layout, table, tx, peakConns,
                   poolOps, failures, locals, hist>>

\* The result line, the mismatch line, and the return (with deferred Close).
Return(s) ==
    /\ pc = At(s, "ret")
    /\ LET l == Printf(log, "Result: " \o Itoa(rowCount) \o " rows (Expected: "
                            \o Itoa(Expected(s)) \o ")")
       IN log' = IF rowCount # Expected(s)
                 THEN PrintMismatch(l, "ERROR: Row count mismatch (" \o s \o ")")
                 ELSE l
    /\ conn' = IF s = "noTx" THEN [conn EXCEPT !.state = "closed"] ELSE conn
    /\ finished' = Append(finished, s)
    /\ pc' = AfterScenario(s)
    /\ UNCHANGED <<exitStatus, started, layout, table, tx, peakConns,
                   poolOps, failures, locals, hist>>

----------------------------------------------------------------------------
(* Scenario 1: demonstrateNoTransactionCopyFrom *)

\* sqlDBConn, err := db.Conn(ctx), fatal on error; Close is deferred.
S1Conn ==
    /\ pc = "noTx_conn"
    /\ \E ok \in BOOLEAN, t \in ConnTypes :
        IF ok
        THEN /\ conn' = [state |-> "open", ci |-> [owner |-> "noTx", type |-> t]]
             /\ peakConns' = Max(peakConns, Held + 1)
             /\ pc' = "noTx_raw"
             /\ UNCHANGED <<exitStatus, log, failures>>
        ELSE /\ Exit(log, "db.Conn failed")
             /\ failures' = Failed("db.Conn", "noTx")
             /\ UNCHANGED <<conn, peakConns>>
    /\ UNCHANGED <<started, finished, layout, table, tx, poolOps, locals, hist>>

\* sqlDBConn.Raw(f): the library either fails before calling f or calls f
\* once with the connection's driver connection.
S1Raw ==
    /\ pc = "noTx_raw"
    /\ \E ok \in BOOLEAN :
        IF ok
        THEN /\ raw' = [NoRaw EXCEPT !.active = TRUE, !.calls = 1,
                                     !.arg = conn.ci, !.scenario = "noTx"]
             /\ pc' = "noTx_cb"
             /\ UNCHANGED failures
        ELSE /\ raw' = [NoRaw EXCEPT !.lookup = "driver: bad connection",
                                     !.scenario = "noTx"]
             /\ pc' = "noTx_rawret"
             /\ failures' = Failed("sql.Conn.Raw", "noTx")
    /\ UNCHANGED <<exitStatus, log, started, finished, layout, db, locals, copy, uses>>

\* Mutant: the Raw error is logged with Printf and the scenario goes on.
S1Check_NonFatal ==
    /\ pc = "noTx_check"
    /\ log' = IF err # NilErr THEN PrintErr(log, "sqlDBConn.Raw failed: " \o err)
              ELSE log
    /\ pc' = "noTx_count"
    /\ UNCHANGED <<exitStatus, started, finished, layout, db, failures, locals, hist>>

\* if err != nil { log.Fatalf("sqlDBConn.Raw failed") }
S1Check ==
    /\ pc = "noTx_check"
    /\ IF err # NilErr
       THEN Exit(log, "sqlDBConn.Raw failed: " \o err)
       ELSE /\ pc' = "noTx_count"
            /\ UNCHANGED <<exitStatus, log>>
    /\ UNCHANGED <<started, finished, layout, db, failures, locals, hist>>

----------------------------------------------------------------------------
(* Scenarios 2 and 3: demonstrateTransaction{Commit,Rollback}CopyFrom *)

\* sqlTx, err := db.BeginTx(ctx, nil), fatal on error; tx := (*Tx)(sqlTx).
TxBegin(s) ==
    /\ pc = At(s, "begin")
    /\ \E ok \in BOOLEAN, t \in ConnTypes :
        IF ok
        THEN /\ tx' = [tx EXCEPT ![s] =
                        [NoTx EXCEPT !.state = "open",
                                     !.dc = [owner |-> s, type |-> "*sql.driverConn",
                                             ci |-> [owner |-> s, type |-> t]]]]
             /\ peakConns' = Max(peakConns, Held + 1)
             /\ pc' = At(s, "raw")
             /\ UNCHANGED <<exitStatus, log, failures>>
        ELSE /\ Exit(log, "Failed to begin transaction (" \o s \o " scenario)")
             /\ failures' = Failed("db.BeginTx", s)
             /\ UNCHANGED <<tx, peakConns>>
    /\ UNCHANGED <<started, finished, layout, table, conn, poolOps, locals, hist>>

\* The driver connection Tx.Raw hands to the callback: tx.dc.ci.
TxRawArg(t) == t.dc.ci

\* Mutant: the callback only stores the connection and returns; the copy
\* runs on the stored reference after the callback is over.
TxRaw_Retain(s) ==
    /\ pc = At(s, "raw")
    /\ log' = Printf(log, "Using reflection to access transaction's driver connection...")
    /\ LET l == TxRawLookup(layout)
       IN  IF l # NilErr
           THEN /\ raw' = [NoRaw EXCEPT !.lookup = l, !.scenario = s,
                                        !.before = [tx |-> tx[s], table |-> table]]
                /\ pc' = At(s, "rawret")
                /\ failures' = Failed("Tx.Raw lookup", s)
           ELSE /\ raw' = [NoRaw EXCEPT !.active = FALSE, !.calls = 1,
                                        !.arg = TxRawArg(tx[s]), !.scenario = s,
                                        !.before = [tx |-> tx[s], table |-> table]]
                /\ pc' = At(s, "cb")
                /\ UNCHANGED failures
    /\ UNCHANGED <<exitStatus, started, finished, layout, db, locals, copy, uses>>

\* Mutant: Raw ends the transaction it was called on (rolls it back) before
\* it calls f.
TxRaw_EndsTx(s) ==
    /\ pc = At(s, "raw")
    /\ log' = Printf(log, "Using reflection to access transaction's driver connection...")
    /\ LET l == TxRawLookup(layout)
       IN  IF l # NilErr
           THEN /\ raw' = [NoRaw EXCEPT !.lookup = l, !.scenario = s,
                                        !.before = [tx |-> tx[s], table |-> table]]
                /\ pc' = At(s, "rawret")
                /\ failures' = Failed("Tx.Raw lookup", s)
           ELSE /\ raw' = [NoRaw EXCEPT !.active = TRUE, !.calls = 1,
                                        !.arg = TxRawArg(tx[s]), !.scenario = s,
                                        !.before = [tx |-> tx[s], table |-> table]]
                /\ pc' = At(s, "cb")
                /\ UNCHANGED failures
    /\ tx' = [tx EXCEPT ![s].state = "rolledback", ![s].pending = <<>>]
    /\ UNCHANGED <<exitStatus, started, finished, layout, table, conn, peakConns,
                   poolOps, locals, copy, uses>>

\* tx.Raw(f) up to the call of f: the reflective lookup of dc and ci.
TxRaw(s) ==
    /\ pc = At(s, "raw")
    /\ log' = Printf(log, "Using reflection to access transaction's driver connection...")
    /\ LET l == TxRawLookup(layout)
       IN  IF l # NilErr
           THEN /\ raw' = [NoRaw EXCEPT !.lookup = l, !.scenario = s,
                                        !.before = [tx |-> tx[s], table |-> table]]
                /\ pc' = At(s, "rawret")
                /\ failures' = Failed("Tx.Raw lookup", s)
           ELSE /\ raw' = [NoRaw EXCEPT !.active = TRUE, !.calls = 1,
                                        !.arg = TxRawArg(tx[s]), !.scenario = s,
                                        !.before = [tx |-> tx[s], table |-> table]]
                /\ pc' = At(s, "cb")
                /\ UNCHANGED failures
    /\ UNCHANGED <<exitStatus, started, finished, layout, db, locals, copy, uses>>

\* sql.Tx.Rollback on handle t: the handle is done whether or not the driver
\* call succeeds, and what the transaction wrote is discarded.
RollbackTx(t) ==
    IF t.state = "open"
    THEN [t EXCEPT !.state = "rolledback", !.pending = <<>>, !.rollbackCalls = @ + 1]
    ELSE [t EXCEPT !.rollbackCalls = @ + 1, !.lateUses = @ + 1]

\* sql.Tx.Commit on handle t: the handle is done either way; the rows are
\* persisted only when the commit succeeds.
CommitTx(t, ok) ==
    IF t.state = "open"
    THEN [t EXCEPT !.state = IF ok THEN "committed" ELSE "failed",
                   !.pending = <<>>, !.commitCalls = @ + 1]
    ELSE [t EXCEPT !.commitCalls = @ + 1, !.lateUses = @ + 1]

\* Mutant: the error branch lacks its return and falls through to the
\* scenario's Commit / Rollback.
TxCheck_NoReturn(s) ==
    /\ pc = At(s, "check")
    /\ IF err # NilErr
       THEN /\ \E ok \in BOOLEAN :
                LET l == PrintErr(log, "CopyFrom failed, rolling back: " \o err)
                IN  IF ok /\ tx[s].state = "open"
                    THEN /\ log' = l
                         /\ UNCHANGED failures
                    ELSE /\ log' = PrintErr(l, "Rollback also failed")
                         /\ failures' = Failed("best-effort Rollback", s)
            /\ tx' = [tx EXCEPT ![s] = RollbackTx(@)]
       ELSE UNCHANGED <<log, tx, failures>>
    /\ pc' = At(s, "end")
    /\ UNCHANGED <<exitStatus, started, finished, layout, table, conn, peakConns,
                   poolOps, locals, hist>>

\* Mutant: the error branch ends the process with log.Fatalf, as scenario 1
\* does, before any Rollback.
TxCheck_Fatal(s) ==
    /\ pc = At(s, "check")
    /\ IF err # NilErr
       THEN Exit(log, "CopyFrom failed: " \o err)
       ELSE /\ pc' = At(s, "end")
            /\ UNCHANGED <<log, exitStatus>>
    /\ UNCHANGED <<started, finished, layout, db, failures, locals, hist>>

\* Mutant: the error branch logs and returns without calling Rollback.
TxCheck_NoRollback(s) ==
    /\ pc = At(s, "check")
    /\ IF err # NilErr
       THEN /\ log' = PrintErr(log, "CopyFrom failed, rolling back: " \o err)
            /\ finished' = Append(finished, s)
            /\ pc' = AfterScenario(s)
       ELSE /\ pc' = At(s, "end")
            /\ UNCHANGED <<log, finished>>
    /\ UNCHANGED <<exitStatus, started, layout, db, failures, locals, hist>>

\* if err != nil { log; best-effort Rollback; return }
TxCheck(s) ==
    /\ pc = At(s, "check")
    /\ IF err # NilErr
       THEN /\ \E ok \in BOOLEAN :
                LET l == PrintErr(log, "CopyFrom failed, rolling back: " \o err)
                IN  IF ok /\ tx[s].state = "open"
                    THEN /\ log' = l
                         /\ UNCHANGED failures
                    ELSE /\ log' = PrintErr(l, "Rollback also failed")
                         /\ failures' = Failed("best-effort Rollback", s)
            /\ tx' = [tx EXCEPT ![s] = RollbackTx(@)]
            /\ finished' = Append(finished, s)
            /\ pc' = AfterScenario(s)
       ELSE /\ pc' = At(s, "end")
            /\ UNCHANGED <<log, tx, finished, failures>>
    /\ UNCHANGED <<exitStatus, started, layout, table, conn, peakConns,
                   poolOps, locals, hist>>

\* The scenario ends its transaction with op ("Commit" or "Rollback"),
\* fatal on error.
EndTx(s, op) ==
    /\ pc = At(s, "end")
    /\ \E ok \in BOOLEAN :
        /\ IF op = "Commit"
           THEN /\ tx' = [tx EXCEPT ![s] = CommitTx(@, ok)]
                /\ table' = IF ok /\ tx[s].state = "open"
                            THEN table \o tx[s].pending ELSE table
           ELSE /\ tx' = [tx EXCEPT ![s] = RollbackTx(@)]
                /\ UNCHANGED table
        /\ IF ok /\ tx[s].state = "open"
           THEN /\ log' = Printf(log, "Transaction " \o op \o " succeeded")
                /\ pc' = At(s, "count")
                /\ UNCHANGED <<exitStatus, failures>>
           ELSE /\ Exit(log, "Failed to " \o op \o " transaction")
                /\ failures' = Failed(op, s)
    /\ UNCHANGED <<started, finished, layout, conn, peakConns, poolOps,
                   locals, hist>>

----------------------------------------------------------------------------
(* main *)

\* Lines 95-102: the summary, then main returns (exit status zero).
MainEnd ==
    /\ pc = "main_end"
    /\ log' = Printf(log, "=== Example Finished ===")
    /\ exitStatus' = "zero"
    /\ pc' = "exit"
    /\ UNCHANGED <<started, finished, layout, db, failures, locals, hist>>

S1Clear == Clear("noTx")
S1Generate == Generate("noTx")
S1Callback == Callback("noTx")
S1RawReturn == RawReturn("noTx")
S1Count == Count("noTx")
S1Return == Return("noTx")

S2Clear == Clear("commit")
S2Generate == Generate("commit")
S2Begin == TxBegin("commit")
S2Raw == TxRaw("commit")
S2Callback == Callback("commit")
S2RawReturn == RawReturn("commit")
S2Check == TxCheck("commit")
S2Commit == EndTx("commit", "Commit")
S2Count == Count("commit")
S2Return == Return("commit")

S3Clear == Clear("rollback")
S3Generate == Generate("rollback")
S3Begin == TxBegin("rollback")
S3Raw == TxRaw("rollback")
S3Callback == Callback("rollback")
S3RawReturn == RawReturn("rollback")
S3Check == TxCheck("rollback")
\* Mutant: scenario 3 commits instead of rolling back.
S3Rollback_Commits == EndTx("rollback", "Commit")
S3Rollback == EndTx("rollback", "Rollback")
S3Count == Count("rollback")
S3Return == Return("rollback")

Next ==
    \/ DbConnect
    \/ S1Clear \/ S1Generate \/ S1Conn \/ S1Raw \/ S1Callback \/ S1RawReturn
    \/ S1Check \/ S1Count \/ S1Return
    \/ S2Clear \/ S2Generate \/ S2Begin \/ S2Raw \/ S2Callback \/ S2RawReturn
    \/ S2Check \/ S2Commit \/ S2Count \/ S2Return
    \/ S3Clear \/ S3Generate \/ S3Begin \/ S3Raw \/ S3Callback \/ S3RawReturn
    \/ S3Check \/ S3Rollback \/ S3Count \/ S3Return
    \/ MainEnd

Spec == Init /\ [][Next]_vars

----------------------------------------------------------------------------
(* Properties *)

Range(q) == {q[i] : i \in 1..Len(q)}

SummaryLogged == \E i \in 1..Len(log) : log[i].msg = "=== Example Finished ==="

\* C1: when the non-transactional or the commit scenario got through all its
\* steps (it is about to log its result), the count it read equals the number
\* of rows it generated (10, 15), and the table holds exactly those rows,
\* whatever the table held before the scenario.
C1_CountEqualsGenerated ==
    \A s \in {"noTx", "commit"} :
        pc = At(s, "ret") =>
            /\ rowCount = Rows(s)
            /\ rowCount = Len(sampleData)
            /\ table = generateSampleData(Rows(s), Prefix(s))

\* C1 witness: the commit scenario read its count after the non-transactional
\* scenario had left its 10 rows behind.
C1_Witness ==
    /\ pc = "commit_ret"
    /\ rowCount = TxCommitRows
    /\ "noTx" \in Range(finished)
    /\ \E i \in 1..Len(poolOps) : poolOps[i].op = "countRows:noTx"

\* C2: in the rollback scenario the copied rows are never persisted: no row
\* of the scenario's batch is ever in the table, and after the explicit
\* rollback the count read is 0.
C2_RollbackPersistsNothing ==
    /\ \A i \in 1..Len(table) :
            table[i] \notin Range(generateSampleData(TxRollbackRows, "TxRollback"))
    /\ pc \in {"rollback_count", "rollback_ret"} => table = <<>>
    /\ pc = "rollback_ret" => rowCount = 0

\* C2 witness: 20 rows were copied inside the transaction, it was rolled
\* back, and the count was read.
C2_Witness ==
    /\ pc = "rollback_ret"
    /\ copy.scenario = "rollback"
    /\ copy.err = NilErr
    /\ Len(copy.pendingAfter) = TxRollbackRows
    /\ tx["rollback"].state = "rolledback"
    /\ tx["rollback"].rollbackCalls = 1

\* C3: when a scenario's bulk copy starts, clearTable has run in that
\* scenario and the table is empty, whatever the earlier scenarios did.
C3_EmptyAtCopyStart ==
    /\ \A s \in Range(ScenarioOrder) :
        pc = At(s, "cb") =>
            /\ table = <<>>
            /\ \E i \in 1..Len(poolOps) :
                /\ poolOps[i].op = "clearTable"
                /\ Len(SelectSeq(SubSeq(poolOps, 1, i),
                                 LAMBDA o : o.op = "clearTable")) = Len(started)
            /\ started[Len(started)] = s
    /\ copy.called => copy.persistedBefore = <<>>

\* C3 witness: the rollback scenario's copy starts after the commit scenario
\* committed its 15 rows.
C3_Witness ==
    /\ pc = "rollback_cb"
    /\ tx["commit"].state = "committed"
    /\ copy.scenario = "commit"
    /\ Len(copy.data) = TxCommitRows

\* Errors the code only logs: the extractor's or the bulk copy's error inside
\* a transactional scenario, and the failure of the best-effort Rollback.
NonFatal(f) ==
    /\ f.scenario \in TxScenarios
    /\ f.step \in {"Tx.Raw lookup", "performCopyFrom", "best-effort Rollback"}

\* C4 as claimed: once any step has reported an error the run is over: only
\* the propagation of that error to its check is still executed, no summary
\* is logged and the exit status is not zero.
C4_AnyErrorIsFatal ==
    failures # <<>> =>
        /\ pc \in {"exit"} \cup {At(s, l) : s \in Range(ScenarioOrder),
                                           l \in {"rawret", "check"}}
        /\ exitStatus # "zero"
        /\ ~SummaryLogged

\* C4 amended: every error is fatal except the extractor's / bulk copy's
\* error inside a transactional scenario and a failed best-effort Rollback.
\* A fatal error is the last error of the run, ends it with a non-zero status
\* and without the summary; the run ends with status zero, and the summary,
\* exactly when no fatal error occurred.
C4_FatalExceptTxOperationErrors ==
    /\ \A i \in 1..Len(failures) :
        ~NonFatal(failures[i]) =>
            /\ i = Len(failures)
            /\ pc \in {"exit", "noTx_rawret", "noTx_check"}
            /\ exitStatus # "zero"
            /\ ~SummaryLogged
            /\ pc = "exit" => /\ exitStatus = "nonzero"
                              /\ log[Len(log)].kind = "fatal"
    /\ \A i \in 1..Len(log) :
        log[i].kind = "fatal" =>
            /\ i = Len(log)
            /\ pc = "exit"
            /\ exitStatus = "nonzero"
            /\ failures # <<>>
            /\ ~NonFatal(failures[Len(failures)])
    /\ exitStatus = "zero" =>
            /\ pc = "exit"
            /\ SummaryLogged
            /\ finished = ScenarioOrder
            /\ \A i \in 1..Len(failures) : NonFatal(failures[i])
    /\ pc = "exit" => exitStatus \in {"zero", "nonzero"}
    /\ (pc = "exit" /\ \A i \in 1..Len(failures) : NonFatal(failures[i]))
            => exitStatus = "zero"

\* C4 witness: the bulk copy failed inside the commit scenario, the run went
\* on through the rollback scenario and ended with the summary and status zero.
C4_Witness ==
    /\ pc = "exit"
    /\ exitStatus = "zero"
    /\ SummaryLogged
    /\ \E i \in 1..Len(failures) :
            failures[i] = [step |-> "performCopyFrom", scenario |-> "commit"]
    /\ "rollback" \in Range(finished)

\* C5: a transaction handle is ended exactly once: at most one of Commit and
\* Rollback is ever called on it, exactly one once its scenario has returned
\* or the process has exited, and it is not used after that call.
C5_HandleEndedExactlyOnce ==
    \A s \in TxScenarios :
        /\ tx[s].commitCalls + tx[s].rollbackCalls <= 1
        /\ tx[s].lateUses = 0
        /\ tx[s].state = "open" => tx[s].commitCalls + tx[s].rollbackCalls = 0
        /\ tx[s].state \in {"committed", "failed"} =>
                tx[s].commitCalls = 1 /\ tx[s].rollbackCalls = 0
        /\ tx[s].state = "rolledback" =>
                tx[s].commitCalls = 0 /\ tx[s].rollbackCalls = 1
        /\ (tx[s].state # "none" /\ (s \in Range(finished) \/ pc = "exit")) =>
                tx[s].commitCalls + tx[s].rollbackCalls = 1
        /\ \A i \in 1..Len(uses) :
                uses[i].owner = s => uses[i].ownerState = "open"

\* C5 witness: both handles were created and ended, one by Commit and one by
\* Rollback, and main returned.
C5_Witness ==
    /\ pc = "exit"
    /\ exitStatus = "zero"
    /\ tx["commit"].state = "committed"
    /\ tx["commit"].commitCalls = 1
    /\ tx["rollback"].state = "rolledback"
    /\ tx["rollback"].rollbackCalls = 1

\* C6: Tx.Raw. When dc or ci is not found the callback is not invoked and
\* Raw returns the lookup error; otherwise the callback is invoked exactly
\* once, before Raw returns, with the handle's driver connection tx.dc.ci,
\* and Raw returns exactly what the callback returned.
C6_TxRawContract ==
    raw.scenario \in TxScenarios =>
        LET s == raw.scenario IN
        /\ layout = "noDc" =>
            /\ raw.calls = 0 /\ ~raw.active
            /\ copy.scenario # s
            /\ raw.returned =>
                    raw.result = "cannot access dc field from transaction"
        /\ layout = "noCi" =>
            /\ raw.calls = 0 /\ ~raw.active
            /\ copy.scenario # s
            /\ raw.returned =>
                    raw.result = "cannot access ci field from driverConn"
        /\ layout = "ok" =>
            /\ raw.calls = 1
            /\ raw.arg = tx[s].dc.ci
            /\ raw.active <=> pc = At(s, "cb")
            /\ raw.returned =>
                /\ ~raw.active
                /\ copy.called /\ copy.scenario = s
                /\ raw.result = copy.err
                /\ raw.result = raw.cbResult
        /\ pc = At(s, "check") => raw.returned /\ err = raw.result

\* C6 witness: the callback failed and Tx.Raw has returned its error.
C6_Witness ==
    /\ pc = "commit_check"
    /\ layout = "ok"
    /\ raw.calls = 1
    /\ raw.returned
    /\ raw.result = "pgxConn.CopyFrom failed: connection lost"
    /\ err = raw.result

\* C7: performCopyFrom. With a connection that is not a *stdlib.Conn it
\* returns the type-mismatch error and attempts no transfer (nothing is
\* written); when the transfer fails it returns the copy-failed error
\* wrapping the cause; it returns nil only when all rows were accepted.
C7_PerformCopyFromContract ==
    copy.called =>
        LET written == (copy.persistedAfter \o copy.pendingAfter)
            before == (copy.persistedBefore \o copy.pendingBefore)
        IN
        /\ copy.type # "*stdlib.Conn" =>
            /\ copy.err = "driverConn is not *stdlib.Conn, got " \o copy.type
            /\ ~copy.attempted
            /\ copy.persistedAfter = copy.persistedBefore
            /\ copy.pendingAfter = copy.pendingBefore
        /\ (copy.type = "*stdlib.Conn" /\ copy.outcome # "ok") =>
            /\ copy.attempted
            /\ copy.err = "pgxConn.CopyFrom failed: " \o copy.outcome
            /\ written = before
        /\ copy.err = NilErr =>
            /\ copy.attempted
            /\ copy.type = "*stdlib.Conn"
            /\ copy.outcome = "ok"
            /\ written = before \o copy.data
            /\ Len(copy.data) = Rows(copy.scenario)

\* C7 witness: a type mismatch inside the rollback scenario, after the commit
\* scenario's copy was accepted and committed.
C7_Witness ==
    /\ copy.called
    /\ copy.scenario = "rollback"
    /\ copy.type = "*other.Conn"
    /\ copy.err = "driverConn is not *stdlib.Conn, got *other.Conn"
    /\ tx["commit"].state = "committed"

\* C8: the borrowed driver connection is used only while the callback that
\* received it is running, and while its owner (the dedicated connection,
\* the transaction) is still open.
C8_RawUsedOnlyInsideCallback ==
    /\ \A i \in 1..Len(uses) :
        /\ uses[i].inCallback
        /\ uses[i].ownerState = "open"
        /\ uses[i].owner = uses[i].scenario
    /\ \A s \in Range(ScenarioOrder) :
        pc = At(s, "cb") => raw.active /\ ~raw.returned /\ raw.scenario = s
    /\ raw.returned => ~raw.active
    /\ \A s \in TxScenarios : tx[s].lateUses = 0

\* C8 witness: all three scenarios have used their borrowed connection.
C8_Witness ==
    /\ Len(uses) = 3
    /\ pc = "exit"
    /\ tx["commit"].state = "committed"
    /\ tx["rollback"].state = "rolledback"

\* The extractor or the bulk copy reported an error in scenario s.
OpFailed(s) ==
    \E i \in 1..Len(failures) :
        /\ failures[i].scenario = s
        /\ failures[i].step \in {"Tx.Raw lookup", "performCopyFrom"}

\* The line the error branch of a transactional scenario logs first.
IsCopyFailedLine(e) ==
    /\ e.kind = "operr"
    /\ Len(e.msg) >= 15
    /\ SubSeq(e.msg, 1, 15) = "CopyFrom failed"

\* C9: in a transactional scenario, once the extractor or the bulk copy has
\* reported an error and the scenario has handled it: the error was logged,
\* Rollback was called exactly once and Commit never, the scenario has
\* returned without counting rows, none of its rows is persisted, and a
\* failure of that Rollback was only logged, never the reason for the exit.
C9_OperationErrorRollsBackAndAborts ==
    \A s \in TxScenarios :
        (OpFailed(s) /\ pc \notin {At(s, "rawret"), At(s, "check")}) =>
            /\ s \in Range(finished)
            /\ tx[s].rollbackCalls = 1
            /\ tx[s].commitCalls = 0
            /\ tx[s].state = "rolledback"
            /\ Cardinality({i \in 1..Len(log) : IsCopyFailedLine(log[i])})
                    = Cardinality({t \in TxScenarios :
                                    OpFailed(t) /\ t \in Range(finished)})
            /\ \A i \in 1..Len(poolOps) : poolOps[i].op # "countRows:" \o s
            /\ Range(table) \cap Range(generateSampleData(Rows(s), Prefix(s))) = {}
            /\ \A i \in 1..Len(failures) :
                (failures[i] = [step |-> "best-effort Rollback", scenario |-> s]) =>
                    /\ \E j \in 1..Len(log) : log[j].msg = "Rollback also failed"
                    /\ (i = Len(failures) /\ pc = "exit") => exitStatus = "zero"

\* C9 witness: the commit scenario's copy failed, its best-effort Rollback
\* failed too, and the run still ended normally.
C9_Witness ==
    /\ pc = "exit"
    /\ exitStatus = "zero"
    /\ OpFailed("commit")
    /\ \E i \in 1..Len(failures) :
            failures[i] = [step |-> "best-effort Rollback", scenario |-> "commit"]

\* The scenarios run in the fixed order, one at a time.
SequentialOrder ==
    /\ Len(started) <= Len(ScenarioOrder)
    /\ started = SubSeq(ScenarioOrder, 1, Len(started))
    /\ Len(finished) <= Len(started)
    /\ finished = SubSeq(started, 1, Len(finished))
    /\ Len(started) - Len(finished) \in {0, 1}
    /\ \A s \in Range(ScenarioOrder) :
        (\E l \in {"gen", "conn", "begin", "raw", "cb", "rawret", "check",
                   "end", "count", "ret"} : pc = At(s, l)) =>
            /\ started # <<>>
            /\ started[Len(started)] = s
            /\ Len(finished) = Len(started) - 1

\* C10 as claimed: sequential, at most one open transaction, and never more
\* than one connection in use: nothing goes through the pool while a
\* dedicated connection or an open transaction holds a connection.
C10_OneConnectionAtATime ==
    /\ SequentialOrder
    /\ Cardinality({s \in TxScenarios : tx[s].state = "open"}) <= 1
    /\ peakConns <= 1
    /\ \A i \in 1..Len(poolOps) : poolOps[i].held = 0

\* C10 amended: sequential, at most one open transaction and at most one
\* connection held outside the pool; nothing goes through the pool while a
\* transaction is open, and the only pool operation issued while a connection
\* is held is scenario 1's countRows, which runs while the scenario's
\* dedicated connection is still checked out (so at most two connections are
\* in use at once).
C10_SequentialAtMostTwoConns ==
    /\ SequentialOrder
    /\ Cardinality({s \in TxScenarios : tx[s].state = "open"}) <= 1
    /\ exitStatus = "running" => Held <= 1
    /\ peakConns <= 2
    /\ \A i \in 1..Len(poolOps) :
        /\ poolOps[i].openTx = {}
        /\ poolOps[i].held > 0 =>
            /\ poolOps[i].op = "countRows:noTx"
            /\ poolOps[i].held = 1
            /\ poolOps[i].conn = "open"

\* C10 witness: scenario 1 counted its rows through the pool while holding
\* its dedicated connection, and the run completed.
C10_Witness ==
    /\ pc = "exit"
    /\ exitStatus = "zero"
    /\ peakConns = 2
    /\ \E i \in 1..Len(poolOps) :
        poolOps[i] = [op |-> "countRows:noTx", held |-> 1, conn |-> "open",
                      openTx |-> {}]

\* C12: whenever the process has terminated, normally or by log.Fatalf, no
\* transaction is open: every handle that was created has had Commit or
\* Rollback called on it, so a fatal exit happens either before the current
\* scenario's BeginTx succeeded or after its Commit / Rollback call.
C12_NoOpenTxAtExit ==
    pc = "exit" =>
        /\ exitStatus \in {"zero", "nonzero"}
        /\ \A s \in TxScenarios :
            /\ tx[s].state # "open"
            /\ tx[s].state # "none" =>
                    tx[s].commitCalls + tx[s].rollbackCalls >= 1
        /\ exitStatus = "nonzero" =>
            LET f == failures[Len(failures)] IN
            f.scenario \in TxScenarios =>
                \/ /\ f.step \in {"clearTable", "db.BeginTx"}
                   /\ tx[f.scenario].state = "none"
                \/ /\ f.step \in {"Commit", "Rollback", "countRows"}
                   /\ tx[f.scenario].state \in {"committed", "rolledback", "failed"}

\* C12 witness: a fatal exit after the commit scenario's handle was created:
\* Commit itself failed.
C12_Witness ==
    /\ pc = "exit"
    /\ exitStatus = "nonzero"
    /\ failures[Len(failures)] = [step |-> "Commit", scenario |-> "commit"]
    /\ tx["commit"].commitCalls = 1
    /\ tx["commit"].state = "failed"

----------------------------------------------------------------------------
(* generateSampleData on its own: the arguments are drawn at the start, one
   step applies the function. *)

GenPrefixes == {"", "NoTx", "TxCommit", "TxRollback"}

InitGen ==
    /\ pc = "gen_call"
    /\ exitStatus = "running"
    /\ log = <<>>
    /\ started = <<>>
    /\ finished = <<>>
    /\ layout = "ok"
    /\ table = <<>>
    /\ conn = [state |-> "none", ci |-> [owner |-> "none", type |-> "none"]]
    /\ tx = [s \in TxScenarios |-> NoTx]
    /\ peakConns = 0
    /\ poolOps = <<>>
    /\ failures = <<>>
    /\ \E n \in 0..MaxGenRows, p \in GenPrefixes :
            genArgs = [called |-> FALSE, numRows |-> n, prefix |-> p]
    /\ sampleData = <<>>
    /\ err = NilErr
    /\ rowCount = 0
    /\ raw = NoRaw
    /\ copy = NoCopy
    /\ uses = <<>>

\* data := generateSampleData(numRows, prefix)
GenCall ==
    /\ pc = "gen_call"
    /\ sampleData' = generateSampleData(genArgs.numRows, genArgs.prefix)
    /\ genArgs' = [genArgs EXCEPT !.called = TRUE]
    /\ pc' = "gen_done"
    /\ UNCHANGED <<exitStatus, log, started, finished, layout, db, failures, err,
                   rowCount, hist>>

NextGen == GenCall

SpecGen == InitGen /\ [][NextGen]_vars

\* Reading a decimal numeral back, digit by digit.
DigitValue(c) ==
    CASE c = "0" -> 0 [] c = "1" -> 1 [] c = "2" -> 2 [] c = "3" -> 3
      [] c = "4" -> 4 [] c = "5" -> 5 [] c = "6" -> 6 [] c = "7" -> 7
      [] c = "8" -> 8 [] c = "9" -> 9 [] OTHER -> -1

IsDecimal(str) ==
    /\ Len(str) >= 1
    /\ \A k \in 1..Len(str) : DigitValue(SubSeq(str, k, k)) >= 0
    /\ Len(str) > 1 => SubSeq(str, 1, 1) # "0"

RECURSIVE Atoi(_)
Atoi(str) ==
    IF Len(str) = 0 THEN 0
    ELSE 10 * Atoi(SubSeq(str, 1, Len(str) - 1))
         + DigitValue(SubSeq(str, Len(str), Len(str)))

\* str is prefix, then word, then the decimal numeral of n.
IsLabelled(str, prefix, word, n) ==
    LET P == Len(prefix)
        W == Len(word)
    IN  /\ Len(str) > P + W
        /\ SubSeq(str, 1, P) = prefix
        /\ SubSeq(str, P + 1, P + W) = word
        /\ IsDecimal(SubSeq(str, P + W + 1, Len(str)))
        /\ Atoi(SubSeq(str, P + W + 1, Len(str))) = n

\* C14: generateSampleData(numRows, prefix) returns exactly numRows rows, for
\* numRows = 0 too; the row at 0-based position i is the pair
\* ("<prefix> Name <i+1>", "<prefix> Data <i+1>"): name first, data second,
\* sequence numbers 1..numRows without gap or duplicate, the name never empty.
C14_GenerateSampleData ==
    genArgs.called =>
        /\ Len(sampleData) = genArgs.numRows
        /\ \A k \in 1..Len(sampleData) :
            /\ Len(sampleData[k]) = 2
            /\ IsLabelled(sampleData[k][1], genArgs.prefix, " Name ", (k - 1) + 1)
            /\ IsLabelled(sampleData[k][2], genArgs.prefix, " Data ", (k - 1) + 1)
            /\ sampleData[k][1] # ""
        /\ \A j, k \in 1..Len(sampleData) :
            j # k => sampleData[j][1] # sampleData[k][1]

\* C14 witness: 20 rows with prefix TxRollback were generated; the last one
\* carries the two-digit number 20.
C14_Witness ==
    /\ pc = "gen_done"
    /\ genArgs = [called |-> TRUE, numRows |-> 20, prefix |-> "TxRollback"]
    /\ Len(sampleData) = 20
    /\ sampleData[20] = <<"TxRollback Name 20", "TxRollback Data 20">>

----------------------------------------------------------------------------
(* Tx.Raw on its own: called once on an open transaction that already holds
   some uncommitted rows, with a callback that either does nothing or runs
   performCopyFrom; afterwards the caller checks the error and ends the
   transaction, as the scenarios do. *)

MaxUnitRows == 2       \* rows pending in the transaction / in the batch

InitRaw ==
    /\ pc = "commit_raw"
    /\ exitStatus = "running"
    /\ log = <<>>
    /\ started = <<"commit">>
    /\ finished = <<>>
    /\ layout \in Layouts
    /\ \E n \in 0..MaxInitRows : table = generateSampleData(n, "Prev")
    /\ conn = [state |-> "none", ci |-> [owner |-> "none", type |-> "none"]]
    /\ \E k \in 0..MaxUnitRows, t \in ConnTypes :
        tx = [s \in TxScenarios |->
                IF s = "commit"
                THEN [NoTx EXCEPT !.state = "open",
                                  !.dc = [owner |-> s, type |-> "*sql.driverConn",
                                          ci |-> [owner |-> s, type |-> t]],
                                  !.pending = generateSampleData(k, "Pending")]
                ELSE NoTx]
    /\ peakConns = 1
    /\ poolOps = <<>>
    /\ failures = <<>>
    /\ genArgs = [called |-> TRUE, numRows |-> MaxUnitRows, prefix |-> "TxCommit"]
    /\ sampleData = generateSampleData(MaxUnitRows, "TxCommit")
    /\ err = NilErr
    /\ rowCount = 0
    /\ raw = NoRaw
    /\ copy = NoCopy
    /\ uses = <<>>

\* A callback that does nothing: func(driverConn any) error { return nil }.
NoopCallback ==
    /\ pc = "commit_cb"
    /\ raw' = [raw EXCEPT !.cbResult = NilErr, !.active = FALSE]
    /\ pc' = "commit_rawret"
    /\ UNCHANGED <<exitStatus, log, started, finished, layout, db, failures,
                   locals, copy, uses>>

UnitRaw == TxRaw("commit")
UnitCopyCallback == Callback("commit")
UnitRawReturn == RawReturn("commit")
UnitCheck == TxCheck("commit")
UnitCommit == EndTx("commit", "Commit")
UnitRollback == EndTx("commit", "Rollback")

NextRaw ==
    \/ UnitRaw \/ NoopCallback \/ UnitCopyCallback \/ UnitRawReturn
    \/ UnitCheck \/ UnitCommit \/ UnitRollback

SpecRaw == InitRaw /\ [][NextRaw]_vars

\* The Raw call ran a callback that did nothing.
NoopRan == raw.calls = 1 /\ ~raw.active /\ ~copy.called

\* C11: Tx.Raw changes neither the handle nor the table: when the callback
\* starts, and when the lookup fails, both are as they were at the call; after
\* a callback that ran performCopyFrom they differ only by what that call
\* wrote; after a callback that does nothing the transaction is open with the
\* same contents, a following Commit persists exactly those contents and a
\* following Rollback leaves the table as it was.
C11_TxRawHasNoSideEffects ==
    raw.scenario = "commit" =>
        LET t0 == raw.before.tx
            tab0 == raw.before.table
            t == tx["commit"]
        IN
        /\ t0.state = "open"
        /\ pc = "commit_cb" => t = t0 /\ table = tab0
        /\ (raw.calls = 0 /\ pc \in {"commit_rawret", "commit_check"}) =>
                t = t0 /\ table = tab0
        /\ (copy.called /\ pc \in {"commit_rawret", "commit_check", "commit_end"}) =>
            /\ copy.persistedBefore = tab0
            /\ copy.pendingBefore = t0.pending
            /\ table = copy.persistedAfter
            /\ t = [t0 EXCEPT !.pending = copy.pendingAfter]
        /\ (NoopRan /\ pc \in {"commit_rawret", "commit_check", "commit_end"}) =>
            /\ t = t0
            /\ table = tab0
            /\ raw.returned => raw.result = NilErr
        /\ (NoopRan /\ pc = "commit_count") =>
            /\ t.state \in {"committed", "rolledback"}
            /\ t.state = "committed" =>
                    table = tab0 \o t0.pending /\ t.commitCalls = 1
            /\ t.state = "rolledback" =>
                    table = tab0 /\ t.rollbackCalls = 1
            /\ t.lateUses = 0

\* C11 witness: Raw ran a do-nothing callback on a transaction holding two
\* uncommitted rows, and the following Commit persisted exactly those rows.
C11_Witness ==
    /\ pc = "commit_count"
    /\ NoopRan
    /\ raw.returned
    /\ Len(raw.before.tx.pending) = 2
    /\ tx["commit"].state = "committed"
    /\ table = raw.before.table \o raw.before.tx.pending

----------------------------------------------------------------------------
(* The run with another client of the same database: while main runs, the
   other client may insert rows into items (committed at once). *)

MaxOtherRows == 1      \* rows of the other client in the table at a time

OtherRows == {i \in 1..Len(table) :
                IsLabelled(table[i][1], "Other", " Name ", 1)}

OtherClient ==
    /\ pc # "exit"
    /\ Cardinality(OtherRows) < MaxOtherRows
    /\ table' = Append(table, <<"Other Name 1", "Other Data 1">>)
    /\ UNCHANGED <<pc, exitStatus, log, started, finished, layout, conn, tx,
                   peakConns, poolOps, failures, locals, hist>>

NextEnv == Next \/ OtherClient

SpecEnv == Init /\ [][NextEnv]_vars

MismatchLine(s) ==
    [kind |-> "mismatch", msg |-> "ERROR: Row count mismatch (" \o s \o ")"]

\* What is logged first after scenario s has returned.
LoggedAfter(s) ==
    CASE s = "noTx" -> "--- Scenario: commit ---"
      [] s = "commit" -> "--- Scenario: rollback ---"
      [] s = "rollback" -> "=== Example Finished ==="

\* C13: a row-count mismatch is only logged. The scenario that logged it has
\* returned normally, the run goes on with what follows that scenario (the
\* next scenario, or the summary after the last one), the scenarios stay in
\* order, and a run in which nothing fatal happens still ends with the
\* summary and status zero.
C13_MismatchIsOnlyLogged ==
    /\ \A i \in 1..Len(log) : \A s \in Range(ScenarioOrder) :
        log[i] = MismatchLine(s) =>
            /\ s \in Range(finished)
            /\ \A k \in 1..Len(failures) : failures[k].step # "mismatch"
            /\ i = Len(log) => pc = AfterScenario(s) /\ exitStatus = "running"
            /\ i < Len(log) => log[i + 1] = [kind |-> "info", msg |-> LoggedAfter(s)]
    /\ SequentialOrder
    /\ (pc = "exit" /\ \A k \in 1..Len(failures) : NonFatal(failures[k])) =>
            /\ exitStatus = "zero"
            /\ SummaryLogged
            /\ finished = ScenarioOrder

\* C13 witness: all three scenarios logged a mismatch and the run still
\* ended with the summary and status zero.
C13_Witness ==
    /\ pc = "exit"
    /\ exitStatus = "zero"
    /\ SummaryLogged
    /\ \A s \in Range(ScenarioOrder) : MismatchLine(s) \in Range(log)

====
